---- MODULE Spec2Model ----
(***************************************************************************)
(* Model of the shader playground: the Renderer (render host: scene,       *)
(* camera, frame loop, shader validation against the GL context) and the   *)
(* App component (shader editor panel: draft / committed source, the       *)
(* compile effect, the diagnostic).                                        *)
(*                                                                         *)
(* Objects of the JavaScript heap are numbered in order of construction:   *)
(* materials[m] is the m-th ShaderMaterial, geometries[g] the g-th         *)
(* PlaneGeometry, gl[h] the h-th WebGL object, scene.id the number of the  *)
(* SceneWithCallback object, camera the number of the camera object.       *)
(***************************************************************************)
EXTENDS Integers, Sequences, FiniteSets, TLC

\* ------------------------------------------------------------------ bounds

\* Number of clicks on the Compile button that are explored.
MaxClicks == 2

\* Number of animation frames that are explored.
MaxTime == 1

\* Number of changes of the window size that are explored.
MaxResizes == 1

\* Objects a client of the Renderer adds to one scene and Meshes it constructs
\* in all, and scenes it switches through, where the Renderer is explored on
\* its own.
MaxChildren == 2

MaxScenes == 2

\* Draw hooks a client of the Renderer assigns.
MaxHooks == 2

\* ------------------------------------------------------------- source texts

\* The fragment texts the editor can hold: the initial program, another program
\* the driver accepts, one the fragment compiler rejects, one that compiles but
\* does not link against the fixed vertex program.
Sources == {"init", "good", "badFrag", "badLink"}

initFragmentShader == "init"

vertexShader == "vertex"

\* The drivers the page can run on: one that accepts the fixed vertex program,
\* one that rejects it with a log (no "#version 300 es"), and one that rejects
\* it and has no info log to give (getShaderInfoLog returns null).
Drivers == {"normal", "noVertex", "silent"}

\* The drivers verifyShaderProgram is called on when it is examined alone: those
\* and one that compiles like "normal" and has no program info log to give
\* (getProgramInfoLog returns null).
VerifyDrivers == Drivers \cup {"noLinkLog"}

NullLog == "<null>"

\* No setErrors call is waiting for a render.
NoUpdate == "<no update>"

\* The window sizes [innerWidth, innerHeight] that are explored; the page opens
\* at InitialSize.
Sizes == {<<4, 2>>, <<2, 2>>}

InitialSize == <<4, 2>>

VARIABLES
    driver,               \* the GL implementation behind threeRenderer.getContext()
    scene,                \* Renderer.scene: [id, name, children, onDraw]; onDraw is
                          \* the number of the closure registered, 0 for undefined
    camera,               \* Renderer.camera: number of the camera object
    scenes,               \* SceneWithCallback objects constructed so far
    enabled,              \* Renderer.enabled
    pending,              \* animation-frame callbacks of renderLoop that are requested
    now,                  \* the clock: frames elapsed
    inner,                \* [window.innerWidth, window.innerHeight]
    setInner,             \* [Renderer.setInnerWidth, Renderer.setInnerHeight]
    materials,            \* every ShaderMaterial constructed: [fragmentShader, disposed, uniforms]
    closures,             \* the variables captured by each registered draw hook:
                          \* [mat, resolution, mousePos, mouseDrag, zoom]
    geometries,           \* every PlaneGeometry constructed: [disposed]
    gl,                   \* every WebGL object created: [kind, flagged, deleted, attached]
    fragmentShader,       \* App state: committed text
    fragmentShaderTemp,   \* App state: draft text
    errors,               \* App state: last diagnostic
    queuedErrors,         \* App: the argument of a setErrors call React has not rendered yet
    showEditors,          \* App state: editor visibility
    pc,                   \* where the page is: "new", "main", "boot", "bootDev",
                          \* "strict", "ready"
    clicks,               \* clicks on Compile so far
    resizes,              \* changes of the window size so far
    verifyCalls,          \* calls of verifyShaderProgram so far
    lastThrew,            \* whether the most recent verifyShaderProgram call threw
    trace,                \* the calls made by the most recent handler, in order
    events,               \* the wheel and mousemove events dispatched to the
                          \* window so far, each with the number of draw
                          \* hooks that had been set up when it arrived
    downloads,            \* the files the page has handed to the browser for
                          \* download: [file, download]
    geom                  \* App: the PlaneGeometry useMemo holds (its number),
                          \* 0 before the first render

vars == <<queuedErrors, driver, scene, camera, scenes, enabled, pending, now, inner, setInner,
          materials, closures, geometries, gl, fragmentShader,
          fragmentShaderTemp, errors, showEditors, pc, clicks, resizes,
          verifyCalls, lastThrew, trace, events, downloads,
          geom>>

Ev(op, arg) == [op |-> op, arg |-> arg]

\* ------------------------------------------------------------ three.js heap

\* A Mesh as the code builds it. material holds the material numbers; isArray
\* tells a material array from a single material.
Mesh(name, g, ms, isArray, ud) ==
    [type |-> "Mesh", name |-> name, geometry |-> g, material |-> ms,
     isArray |-> isArray, userData |-> ud]

\* Object3D.getObjectByName as called on the scene: the scene itself when its own
\* name matches (0), else the first child with that name (its index), else
\* undefined (-1).
getObjectByName(sc, name) ==
    IF sc.name = name THEN 0
    ELSE IF \E i \in 1..Len(sc.children) : sc.children[i].name = name
         THEN CHOOSE i \in 1..Len(sc.children) :
                  /\ sc.children[i].name = name
                  /\ \A j \in 1..(i - 1) : sc.children[j].name # name
         ELSE -1

\* Object3D.remove: removes the object when it is a child; the scene itself is
\* not among its own children.
sceneRemove(sc, idx) ==
    IF idx >= 1 /\ idx <= Len(sc.children)
    THEN [sc EXCEPT !.children =
              SubSeq(@, 1, idx - 1) \o SubSeq(@, idx + 1, Len(@))]
    ELSE sc

sceneAdd(sc, obj) == [sc EXCEPT !.children = Append(@, obj)]

\* --------------------------------------------------------------- the world

\* The objects the handlers work on, as one record, so that the statements of a
\* handler compose in program order. threeRenderer tells whether the
\* constructor has already created the WebGLRenderer.
World ==
    [scene |-> scene, camera |-> camera, scenes |-> scenes,
     setInner |-> setInner, materials |-> materials, closures |-> closures,
     geometries |-> geometries, gl |-> gl, threeRenderer |-> TRUE,
     trace |-> <<>>]

Log(w, op, arg) == [w EXCEPT !.trace = Append(@, Ev(op, arg))]

NoScene == [id |-> 0, name |-> "", children |-> <<>>, onDraw |-> 0]

\* Material.dispose()
materialDispose(w, m) ==
    Log([w EXCEPT !.materials[m].disposed = TRUE], "material.dispose", m)

\* BufferGeometry.dispose()
geometryDispose(w, g) ==
    Log([w EXCEPT !.geometries[g].disposed = TRUE], "geometry.dispose", g)

RECURSIVE disposeAll(_, _)
\* tm.forEach((m) => m.dispose())
disposeAll(w, ms) ==
    IF ms = <<>> THEN w
    ELSE disposeAll(materialDispose(w, Head(ms)), Tail(ms))

\* A forEach callback that forgets material arrays beyond their first entry.
disposeChildFirstOnly(w, c) ==
    IF c.type = "Mesh"
    THEN materialDispose(geometryDispose(w, c.geometry), c.material[1])
    ELSE w

\* The body of the forEach callback of switchScene for one child.
disposeChild(w, c) ==
    IF c.type = "Mesh"
    THEN LET w1 == geometryDispose(w, c.geometry)
         IN  IF c.isArray
             THEN disposeAll(w1, c.material)
             ELSE materialDispose(w1, c.material[1])
    ELSE w

RECURSIVE disposeChildren(_, _)
\* this.scene.children.forEach(...)
disposeChildren(w, cs) ==
    IF cs = <<>> THEN w
    ELSE disposeChildren(disposeChild(w, Head(cs)), Tail(cs))

\* Renderer.recreateCamera
recreateCamera(w) ==
    Log([w EXCEPT !.camera = @ + 1], "recreateCamera", w.camera + 1)

\* new SceneWithCallback(); scene.name = name
newScene(w, name) ==
    [w EXCEPT !.scene = [id |-> w.scenes + 1, name |-> name,
                           children |-> <<>>, onDraw |-> 0],
              !.scenes = @ + 1]

\* A switchScene without the test of the active scene's name.
switchSceneAlways(w, name) ==
    LET w1 == IF w.scene.id # 0
              THEN disposeChildren(w, w.scene.children)
              ELSE w
        w2 == IF w1.threeRenderer
              THEN Log(w1, "renderLists.dispose", 0)
              ELSE w1
    IN  recreateCamera(newScene(w2, name))

\* Renderer.switchScene
switchScene(w, name) ==
    IF w.scene.id = 0 \/ w.scene.name # name
    THEN LET w1 == IF w.scene.id # 0
                   THEN disposeChildren(w, w.scene.children)
                   ELSE w
             w2 == IF w1.threeRenderer
                   THEN Log(w1, "renderLists.dispose", 0)
                   ELSE w1
         IN  recreateCamera(newScene(w2, name))
    ELSE w

\* The Renderer constructor: switchScene("empty") before the WebGLRenderer
\* exists, then recreateCamera.
Constructed ==
    LET blank == [scene |-> NoScene, camera |-> 0, scenes |-> 0,
                  setInner |-> <<0, 0>>, materials |-> <<>>,
                  closures |-> <<>>, geometries |-> <<>>, gl |-> <<>>,
                  threeRenderer |-> FALSE, trace |-> <<>>]
        w1 == switchScene(blank, "empty")
        w2 == Log([w1 EXCEPT !.threeRenderer = TRUE], "setSize", 0)
        w3 == recreateCamera(w2)
    IN  [w3 EXCEPT !.setInner = InitialSize]

\* ------------------------------------------------------------ the GL context

VertexPreamble(src) == <<"#version 300 es ... #line 1 (vertex)", src>>

FragmentPreamble(src) == <<"#version 300 es ... #line 1 (fragment)", src>>

\* gl.getShaderParameter(shader, gl.COMPILE_STATUS) after gl.compileShader
compileStatus(src, type) ==
    IF type = "VERTEX_SHADER"
    THEN driver \notin {"noVertex", "silent"}
    ELSE src[2] # "badFrag"

\* gl.getShaderInfoLog(shader)
getShaderInfoLog(src, type) ==
    IF driver = "silent" THEN NullLog
    ELSE IF type = "VERTEX_SHADER" THEN "vertex log" ELSE "fragment log"

\* gl.getProgramParameter(program, gl.LINK_STATUS) after gl.linkProgram
linkStatus(vs, fs) == fs[2] # "badLink"

\* gl.getProgramInfoLog(program)
getProgramInfoLog(vs, fs) ==
    IF driver \in {"silent", "noLinkLog"} THEN NullLog ELSE "link log"

\* JavaScript's ?? operator
Coalesce(x, dflt) == IF x = NullLog THEN dflt ELSE x

\* gl.createProgram / gl.createShader: a new object, the next handle
glCreate(w, kind) ==
    Log([w EXCEPT !.gl = Append(@, [kind |-> kind, flagged |-> FALSE,
                                     deleted |-> FALSE, attached |-> {}])],
        "gl.create", Len(w.gl) + 1)

\* gl.attachShader
glAttachShader(w, p, s) ==
    Log([w EXCEPT !.gl[p].attached = @ \cup {s}], "gl.attachShader", s)

\* gl.deleteShader: a shader attached to a program is only flagged and lives on
\* until it is detached.
glDeleteShader(w, s) ==
    LET inUse == \E p \in 1..Len(w.gl) :
                     /\ w.gl[p].kind = "program"
                     /\ ~w.gl[p].deleted
                     /\ s \in w.gl[p].attached
    IN  Log(IF inUse THEN [w EXCEPT !.gl[s].flagged = TRUE]
                     ELSE [w EXCEPT !.gl[s].deleted = TRUE],
            "gl.deleteShader", s)

\* gl.deleteProgram: the program goes, its shaders are detached, and those
\* flagged for deletion go with it.
glDeleteProgram(w, p) ==
    Log([w EXCEPT !.gl =
            [h \in 1..Len(w.gl) |->
                IF h = p THEN [w.gl[h] EXCEPT !.deleted = TRUE, !.attached = {}]
                ELSE IF h \in w.gl[p].attached /\ w.gl[h].flagged
                     THEN [w.gl[h] EXCEPT !.deleted = TRUE]
                     ELSE w.gl[h]]],
        "gl.deleteProgram", p)

\* A createShader that hands the shader back whatever the compile status is.
createShaderLenient(w, src, type) ==
    LET w1 == glCreate(w, "shader")
        shader == Len(w1.gl)
        w2 == Log(w1, "gl.compileShader", shader)
    IN  [w |-> w2, threw |-> FALSE, message |-> "", shader |-> shader]

\* Renderer.createShader: [w, threw, message, shader]
createShader(w, src, type) ==
    LET w1 == glCreate(w, "shader")
        shader == Len(w1.gl)
        w2 == Log(w1, "gl.compileShader", shader)
    IN  IF ~compileStatus(src, type)
        THEN [w |-> w2, threw |-> TRUE,
              message |-> Coalesce(getShaderInfoLog(src, type), "Cannot compile"),
              shader |-> shader]
        ELSE [w |-> w2, threw |-> FALSE, message |-> "", shader |-> shader]

\* The tail of verifyShaderProgram once both shaders compiled: attach, delete
\* the shaders, link, delete the program.
linkAndDelete(w, program, vs, fs, vertex, fragment) ==
    LET w1 == glAttachShader(w, program, vs)
        w2 == glAttachShader(w1, program, fs)
        w3 == glDeleteShader(w2, vs)
        w4 == glDeleteShader(w3, fs)
        w5 == Log(w4, "gl.linkProgram", program)
    IN  IF ~linkStatus(vertex, fragment)
        THEN [w |-> w5, threw |-> TRUE,
              message |-> Coalesce(getProgramInfoLog(vertex, fragment),
                                   "Cannot link")]
        ELSE [w |-> glDeleteProgram(w5, program), threw |-> FALSE,
              message |-> ""]

\* Renderer.verifyShaderProgram: [w, threw, message]
verifyShaderProgram(w, vertexSrc, fragmentSrc) ==
    LET w1 == glCreate(w, "program")
        program == Len(w1.gl)
        vertex == VertexPreamble(vertexSrc)
        fragment == FragmentPreamble(fragmentSrc)
        r1 == createShader(w1, vertex, "VERTEX_SHADER")
    IN  IF r1.threw
        THEN [w |-> r1.w, threw |-> TRUE, message |-> r1.message]
        ELSE LET r2 == createShader(r1.w, fragment, "FRAGMENT_SHADER")
             IN  IF r2.threw
                 THEN [w |-> r2.w, threw |-> TRUE, message |-> r2.message]
                 ELSE linkAndDelete(r2.w, program, r1.shader, r2.shader,
                                    vertex, fragment)

\* ------------------------------------------------------------ the frame loop

\* Renderer.getResolution
getResolution == inner

\* Renderer.getElapsedTime
getElapsedTime == now

\* An onResize that resizes the surface without recording the new size.
onResizeNoRecord(w) ==
    recreateCamera(Log(w, "setSize", 0))

\* Renderer.onResize
onResize(w) ==
    recreateCamera([Log(w, "setSize", 0) EXCEPT !.setInner = inner])

\* A quotient a / b of two numbers, kept as the pair.
Frac(a, b) == <<a, b>>

\* The function the effect registers as scene.onDraw, as closure k: it writes
\* the uniforms of the material it captured from the variables it captured.
onDraw(w, k) ==
    LET c == w.closures[k]
        m == c.mat
    IN  Log([w EXCEPT !.materials[m].uniforms =
                [time |-> getElapsedTime,
                 zoom |-> c.zoom,
                 resolution |-> c.resolution,
                 mouse |-> <<Frac(c.mousePos[1], c.resolution[1]),
                             Frac(c.mousePos[2], c.resolution[2])>>,
                 drag |-> <<Frac(c.mouseDrag[1], c.resolution[1]),
                            Frac(c.mouseDrag[2], c.resolution[2])>>]],
            "onDraw", m)

\* Renderer.renderLoop up to the request of the next frame.
renderLoop(w) ==
    LET w1 == IF w.setInner # inner THEN onResize(w) ELSE w
        w2 == Log(w1, "render", w1.scene.id)
    IN  IF w2.scene.onDraw # 0 THEN onDraw(w2, w2.scene.onDraw) ELSE w2

\* ------------------------------------------------------------------ the App

\* ---- binary64 arithmetic of the zoom (let zoom = 1; zoom -= e.deltaY * 0.001)
\* A double in this range is a whole number of units of 2^-62, held as four
\* limbs of twenty bits, least significant first; the top limb carries the
\* sign.  Every double between -4 and 4 that the products and differences
\* below can produce is such a number.
Limb == 1048576

\* Significant bits of a binary64 value.
Mantissa == 53

\* Carries propagated, so that the three low limbs lie in 0..Limb-1.
Norm(x) ==
    LET s1 == x[2] + (x[1] \div Limb)
        s2 == x[3] + (s1 \div Limb)
    IN  <<x[1] % Limb, s1 % Limb, s2 % Limb, x[4] + (s2 \div Limb)>>

BigAdd(x, y) == Norm(<<x[1] + y[1], x[2] + y[2], x[3] + y[3], x[4] + y[4]>>)

BigScale(x, n) == Norm(<<x[1] * n, x[2] * n, x[3] * n, x[4] * n>>)

BigNeg(x) == BigScale(x, -1)

RECURSIVE Bits(_)
Bits(n) == IF n = 0 THEN 0 ELSE 1 + Bits(n \div 2)

RECURSIVE Pow2(_)
Pow2(k) == IF k = 0 THEN 1 ELSE 2 * Pow2(k - 1)

\* The number of bits of a non-negative number.
BitLength(x) ==
    IF x[4] > 0 THEN 60 + Bits(x[4])
    ELSE IF x[3] > 0 THEN 40 + Bits(x[3])
    ELSE IF x[2] > 0 THEN 20 + Bits(x[2])
    ELSE Bits(x[1])

\* A non-negative number rounded to Mantissa significant bits, to nearest and
\* on a tie to the even neighbour; at most nineteen bits are dropped here.
RoundMag(x) ==
    LET k == BitLength(x) - Mantissa
    IN  IF k <= 0 THEN x
        ELSE LET p == Pow2(k)
                 r == x[1] % p
                 odd == (x[1] \div p) % 2 = 1
                 up == 2 * r > p \/ (2 * r = p /\ odd)
             IN  Norm(<<x[1] - r + (IF up THEN p ELSE 0), x[2], x[3], x[4]>>)

\* The double nearest to an exact result.
RoundDouble(x) ==
    IF x[4] < 0 THEN BigNeg(RoundMag(BigNeg(x))) ELSE RoundMag(x)

\* The literal 0.001: 0x10624DD2F1A9FC units of 2^-62.
Thousandth == <<109052, 318767, 4194, 0>>

\* e.deltaY * 0.001
DoubleTimesThousandth(deltaY) == RoundDouble(BigScale(Thousandth, deltaY))

\* x - y
DoubleMinus(x, y) == RoundDouble(BigAdd(x, BigNeg(y)))

\* The literal 1 of let zoom = 1: 2^62 units.
ZoomOne == <<0, 0, 0, 4>>

\* A material built from the initial text instead of the committed one.
newMaterialInit(w, fragment, resolution) ==
    [w EXCEPT !.materials = Append(@,
        [fragmentShader |-> initFragmentShader, disposed |-> FALSE,
         uniforms |-> [time |-> getElapsedTime,
                       zoom |-> ZoomOne,
                       resolution |-> resolution,
                       mouse |-> <<Frac(0, 1), Frac(0, 1)>>,
                       drag |-> <<Frac(0, 1), Frac(0, 1)>>]])]

\* new THREE.ShaderMaterial({uniforms: ..., fragmentShader})
newMaterial(w, fragment, resolution) ==
    [w EXCEPT !.materials = Append(@,
        [fragmentShader |-> fragment, disposed |-> FALSE,
         uniforms |-> [time |-> getElapsedTime,
                       zoom |-> ZoomOne,
                       resolution |-> resolution,
                       mouse |-> <<Frac(0, 1), Frac(0, 1)>>,
                       drag |-> <<Frac(0, 1), Frac(0, 1)>>]])]

\* A replacement that leaves the old quad in the scene.
removeOldQuadNever(w) == w

\* A replacement that removes the old quad and keeps its material alive.
removeOldQuadKeepMaterial(w) ==
    LET oldQuad == getObjectByName(w.scene, "quadX")
    IN  IF oldQuad # -1
        THEN Log([w EXCEPT !.scene = sceneRemove(@, oldQuad)],
                 "scene.remove", w.scene.children[oldQuad].userData)
        ELSE w

\* The lookup of the old quad, its removal and the disposal of its material.
removeOldQuad(w) ==
    LET oldQuad == getObjectByName(w.scene, "quadX")
    IN  IF oldQuad # -1
        THEN LET material == w.scene.children[oldQuad].userData
                 w1 == Log([w EXCEPT !.scene = sceneRemove(@, oldQuad)],
                           "scene.remove", material)
             IN  materialDispose(w1, material)
        ELSE w

\* new THREE.Mesh(geom, mat), named "quadX", added to the scene.
addQuad(w, mat) ==
    Log([w EXCEPT !.scene =
            sceneAdd(@, Mesh("quadX", geom, <<mat>>, FALSE, mat))],
        "scene.add", mat)

\* A set-up that installs the draw hook on the first successful run only.
registerHooksFirstOnly(w, mat, resolution) ==
    [w EXCEPT !.closures = Append(@, [mat |-> mat,
                                      resolution |-> resolution,
                                      mousePos |-> <<0, 0>>,
                                      mouseDrag |-> <<0, 0>>,
                                      zoom |-> ZoomOne]),
              !.scene.onDraw = IF w.closures = <<>> THEN 1 ELSE @]

\* A set-up whose zoom, drag and pointer position carry on from the hook
\* before it.
registerHooksCarryOver(w, mat, resolution) ==
    LET n == Len(w.closures)
    IN  [w EXCEPT !.closures =
            Append(@, IF n = 0
                      THEN [mat |-> mat, resolution |-> resolution,
                            mousePos |-> <<0, 0>>, mouseDrag |-> <<0, 0>>,
                            zoom |-> ZoomOne]
                      ELSE [w.closures[n] EXCEPT !.mat = mat,
                                                 !.resolution = resolution]),
                  !.scene.onDraw = n + 1]

\* A set-up whose previous pointer position starts where the pointer is (at
\* the last mousemove event the window has seen).
registerHooksAtPointer(w, mat, resolution) ==
    LET M == SelectSeq(events, LAMBDA e : e.kind = "mousemove")
    IN  [w EXCEPT !.closures =
            Append(@, [mat |-> mat,
                       resolution |-> resolution,
                       mousePos |-> IF M = <<>> THEN <<0, 0>>
                                    ELSE <<M[Len(M)].x, M[Len(M)].y>>,
                       mouseDrag |-> <<0, 0>>,
                       zoom |-> ZoomOne]),
                  !.scene.onDraw = Len(w.closures) + 1]

\* The variables of the effect run (mousePos, mouseDrag, zoom, resolution), the
\* wheel and mousemove listeners over them, and the draw hook.
registerHooks(w, mat, resolution) ==
    [w EXCEPT !.closures = Append(@, [mat |-> mat,
                                      resolution |-> resolution,
                                      mousePos |-> <<0, 0>>,
                                      mouseDrag |-> <<0, 0>>,
                                      zoom |-> ZoomOne]),
              !.scene.onDraw = Len(w.closures) + 1]

\* A try block whose draw hook writes the material of the first compile.
onVerifiedStaleHook(w, fragment, resolution) ==
    LET w1 == newMaterial(w, fragment, resolution)
        mat == Len(w1.materials)
        w2 == removeOldQuad(w1)
        w3 == addQuad(w2, mat)
    IN  registerHooks(w3, 1, resolution)

\* The try block of the effect after verifyShaderProgram returned.
onVerified(w, fragment, resolution) ==
    LET w1 == newMaterial(w, fragment, resolution)
        mat == Len(w1.materials)
        w2 == removeOldQuad(w1)
        w3 == addQuad(w2, mat)
    IN  registerHooks(w3, mat, resolution)

\* An effect that builds and swaps the drawable whatever the validation says.
effectSwapAnyway(w, fragment) ==
    LET w1 == switchScene(w, "quad")
        resolution == getResolution
        r == verifyShaderProgram(w1, vertexShader, fragment)
    IN  [w |-> onVerified(r.w, fragment, resolution),
         errors |-> IF r.threw THEN r.message ELSE "",
         threw |-> r.threw]

\* An effect that leaves the diagnostic alone when the validation succeeds.
effectKeepDiagnostic(w, fragment) ==
    LET w1 == switchScene(w, "quad")
        resolution == getResolution
        r == verifyShaderProgram(w1, vertexShader, fragment)
    IN  IF r.threw
        THEN [w |-> r.w, errors |-> r.message, threw |-> TRUE]
        ELSE [w |-> onVerified(r.w, fragment, resolution), errors |-> errors,
              threw |-> FALSE]

\* The effect of App: [w, errors, threw]
effect(w, fragment) ==
    LET w1 == switchScene(w, "quad")
        resolution == getResolution
        r == verifyShaderProgram(w1, vertexShader, fragment)
    IN  IF r.threw
        THEN [w |-> r.w, errors |-> r.message, threw |-> TRUE]
        ELSE [w |-> onVerified(r.w, fragment, resolution), errors |-> "",
              threw |-> FALSE]

\* The same try block in the variant that looks the old drawable up under the
\* name "quad": no material is disposed, the Mesh gets a new PlaneGeometry and
\* no name, and renderer.compile() follows.
onVerifiedQuad(w, fragment, resolution) ==
    LET w1 == newMaterial(w, fragment, resolution)
        mat == Len(w1.materials)
        oldQuad == getObjectByName(w1.scene, "quad")
        w2 == IF oldQuad # -1
              THEN Log([w1 EXCEPT !.scene = sceneRemove(@, oldQuad)],
                       "scene.remove", oldQuad)
              ELSE w1
        w3 == [w2 EXCEPT !.geometries = Append(@, [disposed |-> FALSE])]
        w4 == Log([w3 EXCEPT !.scene =
                      sceneAdd(@, Mesh("", Len(w3.geometries), <<mat>>,
                                       FALSE, 0))],
                  "scene.add", mat)
    IN  registerHooks(Log(w4, "compile", 0), mat, resolution)

\* The effect of App in that variant: [w, errors, threw]
effectQuad(w, fragment) ==
    LET w1 == switchScene(w, "quad")
        resolution == getResolution
        r == verifyShaderProgram(w1, vertexShader, fragment)
    IN  IF r.threw
        THEN [w |-> r.w, errors |-> r.message, threw |-> TRUE]
        ELSE [w |-> onVerifiedQuad(r.w, fragment, resolution), errors |-> "",
              threw |-> FALSE]

\* The effect of the page: of App, or of its variant that looks up "quad".
effectOf(quad, w, fragment) ==
    IF quad THEN effectQuad(w, fragment) ELSE effect(w, fragment)

\* The cleanup the effect returns.
cleanup(w) == [w EXCEPT !.scene.onDraw = 0]

\* ---------------------------------------------------------------- actions

Init ==
    /\ driver \in Drivers
    /\ scene = Constructed.scene
    /\ camera = Constructed.camera
    /\ scenes = Constructed.scenes
    /\ enabled = FALSE
    /\ pending = 0
    /\ now = 0
    /\ inner = InitialSize
    /\ setInner = Constructed.setInner
    /\ materials = <<>>
    /\ closures = <<>>
    /\ geometries = <<>>
    /\ gl = <<>>
    /\ fragmentShader = initFragmentShader
    /\ fragmentShaderTemp = initFragmentShader
    /\ errors = ""
    /\ queuedErrors = NoUpdate
    /\ showEditors = TRUE
    /\ pc = "new"
    /\ clicks = 0
    /\ resizes = 0
    /\ verifyCalls = 0
    /\ lastThrew = FALSE
    /\ trace = Constructed.trace
    /\ events = <<>>
    /\ downloads = <<>>
    /\ geom = 0

\* What a handler leaves in the renderer and the heap.
Store(w) ==
    /\ scene' = w.scene
    /\ camera' = w.camera
    /\ scenes' = w.scenes
    /\ setInner' = w.setInner
    /\ materials' = w.materials
    /\ closures' = w.closures
    /\ geometries' = w.geometries
    /\ gl' = w.gl
    /\ trace' = w.trace

\* The diagnostic React holds: the state errors, and the argument of the last
\* setErrors call it has not rendered yet.
Diag == [errors |-> errors, queued |-> queuedErrors]

\* What a render that another state update causes leaves of the diagnostic d: it
\* takes a waiting setErrors update along or leaves it waiting, depending on
\* the priorities React gave the two updates.
Renders(d) ==
    {d} \cup (IF d.queued = NoUpdate THEN {}
              ELSE {[errors |-> d.queued, queued |-> NoUpdate]})

\* setErrors(v) on the diagnostic d: the update waits for the next render; a
\* value equal to the state, with nothing waiting, schedules no render.
setErrors(d, v) ==
    [d EXCEPT !.queued = IF v = d.errors /\ d.queued = NoUpdate
                         THEN NoUpdate ELSE v]

StoreDiag(d) ==
    /\ errors' = d.errors
    /\ queuedErrors' = d.queued

\* What a run of the effect leaves, d being the diagnostic it starts from.
StoreEffect(r, d) ==
    /\ Store(r.w)
    /\ StoreDiag(setErrors(d, r.errors))
    /\ lastThrew' = r.threw
    /\ verifyCalls' = verifyCalls + 1

\* React renders App for a waiting setErrors update: errors takes the value.
\* The effect does not run again, its dependency fragmentShader is unchanged.
\* The effects of one commit run in one task, so no render falls between the
\* two mount runs.
Rerender ==
    /\ pc # "strict"
    /\ queuedErrors # NoUpdate
    /\ StoreDiag([errors |-> queuedErrors, queued |-> NoUpdate])
    /\ UNCHANGED <<geom, downloads, events, driver, scene, camera, scenes,
                   enabled, pending, now, inner, setInner, materials, closures,
                   geometries, gl, fragmentShader, fragmentShaderTemp,
                   showEditors, pc, clicks, resizes, verifyCalls, lastThrew,
                   trace>>

\* main.tsx: renderer.enable() requests the first frame, and createRoot(...)
\* .render(...) schedules the first render of App, which React performs in a
\* later task.
MainStart ==
    /\ pc = "new"
    /\ pc' = "main"
    /\ enabled' = TRUE
    /\ pending' = pending + 1
    /\ trace' = <<>>
    /\ UNCHANGED <<queuedErrors, geom, downloads, events, driver, scene, camera, scenes, now,
                   inner, setInner, materials, closures, geometries, gl,
                   fragmentShader, fragmentShaderTemp, errors, showEditors,
                   clicks, resizes, verifyCalls, lastThrew>>

\* The first render of App, which main.tsx only schedules: useMemo runs its
\* factory, new THREE.PlaneGeometry(2, 2), and holds the result. A production
\* build runs the factory once; under React.StrictMode a development build
\* runs it once or twice and keeps one of the results, depending on the
\* version of React.
AppRender ==
    /\ pc = "main"
    /\ \E dev \in BOOLEAN, calls \in 1..2 :
           /\ calls = 2 => dev
           /\ pc' = IF dev THEN "bootDev" ELSE "boot"
           /\ geometries' = geometries \o [i \in 1..calls |-> [disposed |-> FALSE]]
           /\ geom' \in (Len(geometries) + 1)..(Len(geometries) + calls)
    /\ UNCHANGED <<queuedErrors, downloads, events, driver, scene, camera, scenes, enabled,
                   pending, now, inner, setInner, materials, closures, gl,
                   fragmentShader, fragmentShaderTemp, errors, showEditors,
                   clicks, resizes, verifyCalls, lastThrew, trace>>

\* The effect runs after the first commit. Under React.StrictMode a development
\* build then runs the cleanup and the effect once more; a production build
\* does not.
MountEffect ==
    /\ pc \in {"boot", "bootDev"}
    /\ pc' = IF pc = "bootDev" THEN "strict" ELSE "ready"
    /\ StoreEffect(effect(World, fragmentShader), Diag)
    /\ UNCHANGED <<geom, downloads, events, driver, enabled, pending, now, inner, fragmentShader,
                   fragmentShaderTemp, showEditors, clicks, resizes>>

StrictRerun ==
    /\ pc = "strict"
    /\ pc' = "ready"
    /\ StoreEffect(effect(cleanup(World), fragmentShader), Diag)
    /\ UNCHANGED <<geom, downloads, events, driver, enabled, pending, now, inner, fragmentShader,
                   fragmentShaderTemp, showEditors, clicks, resizes>>

\* A Compile button that re-runs the effect also for an unchanged text.
ClickCompileAlways ==
    /\ pc = "ready"
    /\ showEditors
    /\ clicks < MaxClicks
    /\ clicks' = clicks + 1
    /\ fragmentShader' = fragmentShaderTemp
    /\ \E d \in Renders(Diag) : StoreEffect(effect(cleanup(World), fragmentShaderTemp), d)
    /\ UNCHANGED <<geom, downloads, events, driver, enabled, pending, now, inner, fragmentShaderTemp,
                   showEditors, pc, resizes>>

\* A Compile button that commits the draft only when it validates.
ClickCompileIfValid ==
    /\ pc = "ready"
    /\ showEditors
    /\ clicks < MaxClicks
    /\ clicks' = clicks + 1
    /\ IF fragmentShaderTemp # fragmentShader
       THEN LET r == effect(cleanup(World), fragmentShaderTemp)
            IN  /\ \E d \in Renders(Diag) : StoreEffect(r, d)
                /\ fragmentShader' =
                       IF r.threw THEN fragmentShader ELSE fragmentShaderTemp
       ELSE UNCHANGED <<scene, camera, scenes, setInner, materials, closures,
                        geometries, gl, trace, errors, queuedErrors, lastThrew,
                        verifyCalls, fragmentShader>>
    /\ UNCHANGED <<geom, downloads, events, driver, enabled, pending, now, inner, fragmentShaderTemp,
                   showEditors, pc, resizes>>

\* The Compile button: setFragmentShader(fragmentShaderTemp). React re-renders
\* and re-runs the effect (cleanup first) only when the state value changed.
\* Up to limit clicks are explored.
onClickCompile(limit) ==
    /\ pc = "ready"
    /\ showEditors
    /\ clicks < limit
    /\ clicks' = clicks + 1
    /\ fragmentShader' = fragmentShaderTemp
    /\ IF fragmentShaderTemp # fragmentShader
       THEN \E d \in Renders(Diag) :
                StoreEffect(effect(cleanup(World), fragmentShaderTemp), d)
       ELSE UNCHANGED <<scene, camera, scenes, setInner, materials, closures,
                        geometries, gl, trace, errors, queuedErrors, lastThrew,
                        verifyCalls>>
    /\ UNCHANGED <<geom, downloads, events, driver, enabled, pending, now, inner, fragmentShaderTemp,
                   showEditors, pc, resizes>>

ClickCompile == onClickCompile(MaxClicks)

\* Where the page is once App has rendered and no commit is under way: before
\* the mount effect ("boot" in a production build, "bootDev" in a development
\* build) and after it.
Rendered == {"boot", "bootDev", "ready"}

\* What run number n of the effect, with outcome r, leaves when the diagnostic
\* was d before it: the renderer and the heap, the diagnostic with the value
\* the run handed to setErrors, whether verifyShaderProgram threw, and n.
\* [w, diag, threw, runs]
flushed(r, d, n) ==
    [w |-> r.w, diag |-> setErrors(d, r.errors), threw |-> r.threw, runs |-> n]

\* React.StrictMode in a development build: after the first run of the mount
\* effect, which left f, the cleanup and the effect once more; trace keeps the
\* calls of this last run.
strictRerun(quad, f) ==
    flushed(effectOf(quad, cleanup([f.w EXCEPT !.trace = <<>>]), fragmentShader),
            f.diag, 2)

\* The effects of the first commit that React has not run yet when a state
\* update arrives: React runs them before it renders the update, in the same
\* task. These are the effect of App (of the variant that looks up "quad" when
\* quad is true) and, under React.StrictMode in a development build, its
\* cleanup and the effect once more. Once the mount effects have run there is
\* nothing to flush.
flushPassiveEffects(quad) ==
    IF pc = "ready"
    THEN [w |-> [World EXCEPT !.trace = trace], diag |-> Diag,
          threw |-> lastThrew, runs |-> 0]
    ELSE IF pc = "boot"
    THEN flushed(effectOf(quad, World, fragmentShader), Diag, 1)
    ELSE strictRerun(quad,
                     flushed(effectOf(quad, World, fragmentShader), Diag, 1))

\* The renderer, the heap and the diagnostic after the flush f and the render
\* of the update that follows it.
StoreFlushed(f) ==
    /\ Store(f.w)
    /\ \E d \in Renders(f.diag) : StoreDiag(d)
    /\ lastThrew' = f.threw
    /\ verifyCalls' = verifyCalls + f.runs
    /\ pc' = "ready"

\* What a state update other than setFragmentShader leaves of the renderer,
\* the heap and the diagnostic: the effects React flushes first, then the
\* render of the update.
StoreUpdate(quad) == StoreFlushed(flushPassiveEffects(quad))

\* CodeMirror onChange: setFragmentShaderTemp(v).
onChange(quad, v) ==
    /\ pc \in Rendered
    /\ showEditors
    /\ v # fragmentShaderTemp
    /\ fragmentShaderTemp' = v
    /\ StoreUpdate(quad)
    /\ UNCHANGED <<geom, downloads, events, driver, enabled, pending, now,
                   inner, fragmentShader, showEditors, clicks, resizes>>

Edit(v) == onChange(FALSE, v)

\* The Toggle Editors button: setShowEditors((prev) => !prev).
toggleEditors(quad) ==
    /\ pc \in Rendered
    /\ showEditors' = ~showEditors
    /\ StoreUpdate(quad)
    /\ UNCHANGED <<geom, downloads, events, driver, enabled, pending, now,
                   inner, fragmentShader, fragmentShaderTemp, clicks, resizes>>

ToggleEditors == toggleEditors(FALSE)

\* The user resizes the window; no resize falls between the two mount runs.
WindowResize(s) ==
    /\ pc # "strict"
    /\ resizes < MaxResizes
    /\ s # inner
    /\ inner' = s
    /\ resizes' = resizes + 1
    /\ UNCHANGED <<queuedErrors, geom, downloads, events, driver, scene, camera, scenes, enabled, pending, now,
                   setInner, materials, closures, geometries, gl,
                   fragmentShader, fragmentShaderTemp, errors, showEditors, pc,
                   clicks, verifyCalls, lastThrew, trace>>

\* Time passes on the clock of the renderer.
Advance ==
    /\ now < MaxTime
    /\ now' = now + 1
    /\ UNCHANGED <<queuedErrors, geom, downloads, events, driver, scene, camera, scenes, enabled, pending, inner,
                   setInner, materials, closures, geometries, gl,
                   fragmentShader, fragmentShaderTemp, errors, showEditors, pc,
                   clicks, resizes, verifyCalls, lastThrew, trace>>

\* An animation frame: one requested callback runs renderLoop, which requests
\* the next frame while the renderer is enabled. The effects of a commit run in
\* one task, so no frame falls between the two mount runs.
Tick ==
    /\ pending > 0
    /\ pc # "strict"
    /\ Store(renderLoop(World))
    /\ pending' = IF enabled THEN pending ELSE pending - 1
    /\ UNCHANGED <<queuedErrors, geom, downloads, events, driver, enabled, now, inner, fragmentShader,
                   fragmentShaderTemp, errors, showEditors, pc, clicks, resizes,
                   verifyCalls, lastThrew>>

Next ==
    \/ MainStart
    \/ AppRender
    \/ MountEffect
    \/ StrictRerun
    \/ Rerender
    \/ ClickCompile
    \/ \E v \in Sources : Edit(v)
    \/ ToggleEditors
    \/ \E s \in Sizes : WindowResize(s)
    \/ Advance
    \/ Tick

Spec == Init /\ [][Next]_vars

\* The page in a window that keeps its size.
NextPanel ==
    \/ MainStart
    \/ AppRender
    \/ MountEffect
    \/ StrictRerun
    \/ Rerender
    \/ ClickCompile
    \/ \E v \in Sources : Edit(v)
    \/ ToggleEditors
    \/ Advance
    \/ Tick

SpecPanel == Init /\ [][NextPanel]_vars

\* Clicks on Compile that are explored where one failed compile follows
\* another.
MaxAttempts == 3

\* The page in a window that keeps its size and with the editors shown, over
\* longer runs of compiles.
NextRecover ==
    \/ MainStart
    \/ AppRender
    \/ MountEffect
    \/ StrictRerun
    \/ Rerender
    \/ onClickCompile(MaxAttempts)
    \/ \E v \in Sources : Edit(v)
    \/ Advance
    \/ Tick

SpecRecover == Init /\ [][NextRecover]_vars

\* ------------------------------------- the variant that looks up "quad"

MountEffectQuad ==
    /\ pc \in {"boot", "bootDev"}
    /\ pc' = IF pc = "bootDev" THEN "strict" ELSE "ready"
    /\ StoreEffect(effectQuad(World, fragmentShader), Diag)
    /\ UNCHANGED <<geom, downloads, events, driver, enabled, pending, now, inner, fragmentShader,
                   fragmentShaderTemp, showEditors, clicks, resizes>>

StrictRerunQuad ==
    /\ pc = "strict"
    /\ pc' = "ready"
    /\ StoreEffect(effectQuad(cleanup(World), fragmentShader), Diag)
    /\ UNCHANGED <<geom, downloads, events, driver, enabled, pending, now, inner, fragmentShader,
                   fragmentShaderTemp, showEditors, clicks, resizes>>

ClickCompileQuad ==
    /\ pc = "ready"
    /\ showEditors
    /\ clicks < MaxClicks
    /\ clicks' = clicks + 1
    /\ fragmentShader' = fragmentShaderTemp
    /\ IF fragmentShaderTemp # fragmentShader
       THEN \E d \in Renders(Diag) :
                StoreEffect(effectQuad(cleanup(World), fragmentShaderTemp), d)
       ELSE UNCHANGED <<scene, camera, scenes, setInner, materials, closures,
                        geometries, gl, trace, errors, queuedErrors, lastThrew,
                        verifyCalls>>
    /\ UNCHANGED <<geom, downloads, events, driver, enabled, pending, now, inner, fragmentShaderTemp,
                   showEditors, pc, resizes>>

\* The first render of App in the variant, which has no useMemo: a development
\* build (React.StrictMode) or a production build.
AppRenderQuad ==
    /\ pc = "main"
    /\ pc' \in {"boot", "bootDev"}
    /\ UNCHANGED <<queuedErrors, geom, downloads, events, driver, scene, camera, scenes,
                   enabled, pending, now, inner, setInner, materials, closures,
                   geometries, gl, fragmentShader, fragmentShaderTemp, errors,
                   showEditors, clicks, resizes, verifyCalls, lastThrew, trace>>

EditQuad(v) == onChange(TRUE, v)

ToggleEditorsQuad == toggleEditors(TRUE)

NextQuad ==
    \/ MainStart
    \/ AppRenderQuad
    \/ MountEffectQuad
    \/ StrictRerunQuad
    \/ Rerender
    \/ ClickCompileQuad
    \/ \E v \in Sources : EditQuad(v)
    \/ ToggleEditorsQuad
    \/ \E s \in Sizes : WindowResize(s)
    \/ Advance
    \/ Tick

SpecQuad == Init /\ [][NextQuad]_vars

\* ------------------------------------------------ the Renderer on its own

\* The scene names a client switches between.
SceneNames == {"empty", "quad", "other"}

\* What a client puts into a scene: a Mesh with one material, a Mesh with an
\* array of two materials, an object that is no Mesh.
ChildKinds == {"single", "array", "group"}

\* A client constructs an object and adds it to renderer.scene.
HostAdd(kind) ==
    /\ pc = "new"
    /\ Len(scene.children) < MaxChildren
    /\ Len(geometries) < MaxChildren
    /\ LET n == IF kind = "single" THEN 1 ELSE IF kind = "array" THEN 2 ELSE 0
           M == Len(materials)
           fresh == [i \in 1..n |-> [fragmentShader |-> initFragmentShader,
                                      disposed |-> FALSE,
                                      uniforms |-> [time |-> now,
                                                    zoom |-> ZoomOne,
                                                    resolution |-> inner,
                                                    mouse |-> <<Frac(0, 1), Frac(0, 1)>>,
                                                    drag |-> <<Frac(0, 1), Frac(0, 1)>>]]]
           G == Len(geometries)
       IN  IF kind = "group"
           THEN /\ scene' = sceneAdd(scene,
                                [type |-> "Object3D", name |-> "", geometry |-> 0,
                                 material |-> <<>>, isArray |-> FALSE,
                                 userData |-> 0])
                /\ UNCHANGED <<materials, geometries>>
           ELSE /\ materials' = materials \o fresh
                /\ geometries' = Append(geometries, [disposed |-> FALSE])
                /\ scene' = sceneAdd(scene,
                                Mesh("", G + 1, [i \in 1..n |-> M + i],
                                     kind = "array", 0))
    /\ trace' = <<>>
    /\ UNCHANGED <<queuedErrors, geom, downloads, events, driver, camera, scenes, enabled, pending, now, inner,
                   setInner, closures, gl, fragmentShader, fragmentShaderTemp,
                   errors, showEditors, pc, clicks, resizes, verifyCalls,
                   lastThrew>>

\* A client assigns scene.onDraw a draw hook over material m of the scene, in
\* place of the one the scene has, if any.
HostSetHook(m) ==
    /\ pc = "new"
    /\ Len(closures) < MaxHooks
    /\ \E i \in 1..Len(scene.children) :
           \E j \in 1..Len(scene.children[i].material) :
               scene.children[i].material[j] = m
    /\ Store(registerHooks(World, m, getResolution))
    /\ UNCHANGED <<queuedErrors, geom, downloads, events, driver, enabled, pending, now, inner, fragmentShader,
                   fragmentShaderTemp, errors, showEditors, pc, clicks, resizes,
                   verifyCalls, lastThrew>>

\* A client calls renderer.switchScene(name).
HostSwitchScene(name) ==
    /\ pc = "new"
    /\ scenes < MaxScenes
    /\ Store(switchScene(World, name))
    /\ UNCHANGED <<queuedErrors, geom, downloads, events, driver, enabled, pending, now, inner, fragmentShader,
                   fragmentShaderTemp, errors, showEditors, pc, clicks, resizes,
                   verifyCalls, lastThrew>>

NextHost ==
    \/ \E kind \in ChildKinds : HostAdd(kind)
    \/ \E m \in 1..Len(materials) : HostSetHook(m)
    \/ \E name \in SceneNames : HostSwitchScene(name)

SpecHost == Init /\ [][NextHost]_vars

\* ------------------------------------- the page with wheel and pointer

\* Wheel and pointer events that are explored.
MaxEvents == 3

\* Where the pointer goes (clientX, clientY), which buttons are down
\* (MouseEvent.buttons: 0 is no button, 1 the primary button alone; the
\* listener tests buttons === 1 and nothing else), and how far the wheel turns
\* (WheelEvent.deltaY).
Points == {<<1, 1>>, <<3, 2>>}

Buttons == {0, 1}

WheelDeltas == {100, -300}

\* A wheel listener that adds e.deltaY * 0.001 to the zoom.
wheelListenerAdd(c, deltaY) ==
    [c EXCEPT !.zoom = DoubleMinus(@, DoubleTimesThousandth(-deltaY))]

\* The wheel listener of one effect run, over the variables c of that run:
\* zoom -= e.deltaY * 0.001, in binary64 as the engine computes it.
wheelListener(c, deltaY) ==
    [c EXCEPT !.zoom = DoubleMinus(@, DoubleTimesThousandth(deltaY))]

\* The mousemove listener of one effect run, over the variables c of that run.
mousemoveListener(c, clientX, clientY, buttons) ==
    LET newPos == <<clientX, clientY>>
        deltaPos == <<newPos[1] - c.mousePos[1], newPos[2] - c.mousePos[2]>>
    IN  [c EXCEPT !.mouseDrag = IF buttons = 1
                                THEN <<@[1] + deltaPos[1], @[2] + deltaPos[2]>>
                                ELSE @,
                  !.mousePos = newPos]

\* window dispatches an event to every listener added so far; the effect never
\* removes the listeners of its earlier runs.
dispatchWheel(w, deltaY) ==
    [w EXCEPT !.closures =
        [k \in 1..Len(w.closures) |-> wheelListener(w.closures[k], deltaY)]]

dispatchMousemove(w, clientX, clientY, buttons) ==
    [w EXCEPT !.closures =
        [k \in 1..Len(w.closures) |->
            mousemoveListener(w.closures[k], clientX, clientY, buttons)]]

\* The events of one kind dispatched so far.
EventsOf(kind) == SelectSeq(events, LAMBDA e : e.kind = kind)

\* The user turns the wheel.
Wheel(deltaY) ==
    /\ pc = "ready"
    /\ Len(events) < MaxEvents
    /\ Store(dispatchWheel(World, deltaY))
    /\ events' = Append(events, [kind |-> "wheel", x |-> 0, y |-> 0,
                                 buttons |-> 0, deltaY |-> deltaY,
                                 hooks |-> Len(closures)])
    /\ UNCHANGED <<queuedErrors, geom, downloads, driver, enabled, pending, now, inner, fragmentShader,
                   fragmentShaderTemp, errors, showEditors, pc, clicks, resizes,
                   verifyCalls, lastThrew>>

\* The user moves the pointer; up to limit events are explored.
onMouseMove(limit, clientX, clientY, buttons) ==
    /\ pc = "ready"
    /\ Len(events) < limit
    /\ Store(dispatchMousemove(World, clientX, clientY, buttons))
    /\ events' = Append(events, [kind |-> "mousemove", x |-> clientX,
                                 y |-> clientY, buttons |-> buttons,
                                 deltaY |-> 0, hooks |-> Len(closures)])
    /\ UNCHANGED <<queuedErrors, geom, downloads, driver, enabled, pending, now, inner, fragmentShader,
                   fragmentShaderTemp, errors, showEditors, pc, clicks, resizes,
                   verifyCalls, lastThrew>>

MouseMove(clientX, clientY, buttons) ==
    onMouseMove(MaxEvents, clientX, clientY, buttons)

\* Pointer moves that are explored where the window changes its size.
MaxMoves == 2

\* The page with pointer moves, in a window the user resizes, with the
\* editors shown and hidden. The hook does not read the clock in what it
\* computes from the pointer, so the clock stays where it is.
NextInput ==
    \/ MainStart
    \/ AppRender
    \/ MountEffect
    \/ StrictRerun
    \/ Rerender
    \/ ClickCompile
    \/ \E v \in {"good"} : Edit(v)
    \/ ToggleEditors
    \/ \E p \in Points : \E b \in Buttons : onMouseMove(MaxMoves, p[1], p[2], b)
    \/ \E s \in Sizes : WindowResize(s)
    \/ Tick

SpecInput == Init /\ [][NextInput]_vars

\* The page with wheel turns and pointer moves, in a window that keeps its
\* size.
NextWheel ==
    \/ MainStart
    \/ AppRender
    \/ MountEffect
    \/ StrictRerun
    \/ Rerender
    \/ ClickCompile
    \/ \E v \in {"good"} : Edit(v)
    \/ \E p \in Points : \E b \in Buttons : MouseMove(p[1], p[2], b)
    \/ \E d \in WheelDeltas : Wheel(d)
    \/ Tick

SpecWheel == Init /\ [][NextWheel]_vars

\* ------------------------------------- the page with the Save As button

\* Clicks on Save As that are explored.
MaxSaves == 1

\* The UTF-16 code units of the texts, cut down to the characters that matter
\* to an encoder: the initial program is plain ASCII ("v"); the others carry,
\* in a comment, an unpaired high surrogate after an ASCII character, a
\* surrogate pair (U+1F600) before a three-byte character (U+20AC), and an
\* unpaired low surrogate before a two-byte character (U+00E9).
CodeUnits(text) ==
    CASE text = "init" -> <<118>>
      [] text = "good" -> <<118, 55357>>
      [] text = "badFrag" -> <<55357, 56832, 8364>>
      [] text = "badLink" -> <<56832, 233>>

IsHighSurrogate(u) == u >= 55296 /\ u <= 56319

IsLowSurrogate(u) == u >= 56320 /\ u <= 57343

RECURSIVE toWellFormed(_)
\* A string with every unpaired surrogate replaced by U+FFFD, as the
\* conversion of a string to a USVString does it.
toWellFormed(s) ==
    IF s = <<>> THEN <<>>
    ELSE IF Len(s) >= 2 /\ IsHighSurrogate(s[1]) /\ IsLowSurrogate(s[2])
         THEN <<s[1], s[2]>> \o toWellFormed(SubSeq(s, 3, Len(s)))
         ELSE IF IsHighSurrogate(s[1]) \/ IsLowSurrogate(s[1])
              THEN <<65533>> \o toWellFormed(Tail(s))
              ELSE <<s[1]>> \o toWellFormed(Tail(s))

RECURSIVE CodePoints(_)
\* The code points of a well-formed string.
CodePoints(s) ==
    IF s = <<>> THEN <<>>
    ELSE IF IsHighSurrogate(s[1])
         THEN <<65536 + (s[1] - 55296) * 1024 + (s[2] - 56320)>>
                  \o CodePoints(SubSeq(s, 3, Len(s)))
         ELSE <<s[1]>> \o CodePoints(Tail(s))

\* The UTF-8 bytes of one code point.
Utf8Bytes(cp) ==
    IF cp < 128 THEN <<cp>>
    ELSE IF cp < 2048 THEN <<192 + (cp \div 64), 128 + (cp % 64)>>
    ELSE IF cp < 65536
         THEN <<224 + (cp \div 4096), 128 + ((cp \div 64) % 64),
                128 + (cp % 64)>>
         ELSE <<240 + (cp \div 262144), 128 + ((cp \div 4096) % 64),
                128 + ((cp \div 64) % 64), 128 + (cp % 64)>>

RECURSIVE Utf8Encode(_)
Utf8Encode(cps) ==
    IF cps = <<>> THEN <<>>
    ELSE Utf8Bytes(Head(cps)) \o Utf8Encode(Tail(cps))

\* new Blob([text], {type}): the text converted to a USVString and encoded as
\* UTF-8, and the type.
Blob(text, type) ==
    [bytes |-> Utf8Encode(CodePoints(toWellFormed(CodeUnits(text)))),
     type |-> type]

RECURSIVE Utf8Decode(_)
\* The code points of a sequence of UTF-8 bytes.
Utf8Decode(b) ==
    IF b = <<>> THEN <<>>
    ELSE IF b[1] < 128 THEN <<b[1]>> \o Utf8Decode(Tail(b))
    ELSE IF b[1] < 224
         THEN <<(b[1] - 192) * 64 + (b[2] - 128)>>
                  \o Utf8Decode(SubSeq(b, 3, Len(b)))
    ELSE IF b[1] < 240
         THEN <<(b[1] - 224) * 4096 + (b[2] - 128) * 64 + (b[3] - 128)>>
                  \o Utf8Decode(SubSeq(b, 4, Len(b)))
         ELSE <<(b[1] - 240) * 262144 + (b[2] - 128) * 4096
                    + (b[3] - 128) * 64 + (b[4] - 128)>>
                  \o Utf8Decode(SubSeq(b, 5, Len(b)))

RECURSIVE Utf16(_)
\* The UTF-16 code units of a sequence of code points.
Utf16(cps) ==
    IF cps = <<>> THEN <<>>
    ELSE (IF Head(cps) >= 65536
          THEN <<55296 + ((Head(cps) - 65536) \div 1024),
                 56320 + ((Head(cps) - 65536) % 1024)>>
          ELSE <<Head(cps)>>) \o Utf16(Tail(cps))

\* The text a Blob holds, read back as a string (its bytes decoded as UTF-8).
BlobText(file) == Utf16(Utf8Decode(file.bytes))

\* new Date().toISOString() at time t
toISOString(t) == <<"ISO-8601", t>>

\* An export of the draft instead of the committed text.
saveAsDraft ==
    [file |-> Blob(fragmentShaderTemp, "text/plain"),
     download |-> <<"fragment-", toISOString(now), ".glsl">>]

\* saveAs of App: the object URL of the Blob and the download name of the
\* anchor that is clicked.
saveAs ==
    [file |-> Blob(fragmentShader, "text/plain"),
     download |-> <<"fragment-", toISOString(now), ".glsl">>]

\* The user clicks Save As, which is shown with the editors from the first
\* render on.
SaveAs ==
    /\ pc \in Rendered
    /\ showEditors
    /\ Len(downloads) < MaxSaves
    /\ downloads' = Append(downloads, saveAs)
    /\ UNCHANGED <<queuedErrors, geom, events, driver, scene, camera, scenes, enabled, pending, now,
                   inner, setInner, materials, closures, geometries, gl,
                   fragmentShader, fragmentShaderTemp, errors, showEditors, pc,
                   clicks, resizes, verifyCalls, lastThrew, trace>>

NextExport ==
    \/ MainStart
    \/ AppRender
    \/ MountEffect
    \/ StrictRerun
    \/ Rerender
    \/ ClickCompile
    \/ \E v \in Sources : Edit(v)
    \/ ToggleEditors
    \/ Advance
    \/ SaveAs

SpecExport == Init /\ [][NextExport]_vars

\* ------------------------------------- the frame loop driven by a client

\* The animation-frame callbacks a client lets pile up.
MaxPending == 2

\* k callbacks of renderLoop run one after the other.
RECURSIVE renderLoops(_, _)
renderLoops(w, k) == IF k = 0 THEN w ELSE renderLoops(renderLoop(w), k - 1)

\* One animation frame of the browser: every callback requested before the
\* frame runs renderLoop; each requests a callback for the next frame while the
\* renderer is enabled.
Frame ==
    /\ pending > 0
    /\ pc # "strict"
    /\ Store(renderLoops(World, pending))
    /\ pending' = IF enabled THEN pending ELSE 0
    /\ UNCHANGED <<queuedErrors, geom, downloads, events, driver, enabled, now, inner, fragmentShader,
                   fragmentShaderTemp, errors, showEditors, pc, clicks, resizes,
                   verifyCalls, lastThrew>>

\* A client calls renderer.enable().
HostEnable ==
    /\ pc = "new"
    /\ pending < MaxPending
    /\ enabled' = TRUE
    /\ pending' = pending + 1
    /\ trace' = <<>>
    /\ UNCHANGED <<queuedErrors, geom, downloads, events, driver, scene, camera, scenes, now, inner, setInner,
                   materials, closures, geometries, gl, fragmentShader,
                   fragmentShaderTemp, errors, showEditors, pc, clicks, resizes,
                   verifyCalls, lastThrew>>

\* A client calls renderer.disable().
HostDisable ==
    /\ pc = "new"
    /\ enabled' = FALSE
    /\ trace' = <<>>
    /\ UNCHANGED <<queuedErrors, geom, downloads, events, driver, scene, camera, scenes, pending, now, inner,
                   setInner, materials, closures, geometries, gl,
                   fragmentShader, fragmentShaderTemp, errors, showEditors, pc,
                   clicks, resizes, verifyCalls, lastThrew>>

NextLoop ==
    \/ HostEnable
    \/ HostDisable
    \/ Frame
    \/ \E kind \in {"single"} : HostAdd(kind)
    \/ \E m \in {Len(materials)} : HostSetHook(m)
    \/ \E s \in Sizes : WindowResize(s)
    \/ Advance

SpecLoop == Init /\ [][NextLoop]_vars

\* ------------------------------------- verifyShaderProgram called alone

\* The calls of verifyShaderProgram a client makes.
MaxVerify == 3

InitVerify ==
    /\ driver \in VerifyDrivers
    /\ scene = Constructed.scene
    /\ camera = Constructed.camera
    /\ scenes = Constructed.scenes
    /\ enabled = FALSE
    /\ pending = 0
    /\ now = 0
    /\ inner = InitialSize
    /\ setInner = Constructed.setInner
    /\ materials = <<>>
    /\ closures = <<>>
    /\ geometries = <<>>
    /\ gl = <<>>
    /\ fragmentShader = initFragmentShader
    /\ fragmentShaderTemp = initFragmentShader
    /\ errors = ""
    /\ queuedErrors = NoUpdate
    /\ showEditors = TRUE
    /\ pc = "new"
    /\ clicks = 0
    /\ resizes = 0
    /\ verifyCalls = 0
    /\ lastThrew = FALSE
    /\ trace = Constructed.trace
    /\ events = <<>>
    /\ downloads = <<>>
    /\ geom = 0

\* A client calls renderer.verifyShaderProgram(vertexShader, f) in a try block
\* and keeps the text it passed and what was thrown.
VerifyCall(f) ==
    /\ pc = "new"
    /\ verifyCalls < MaxVerify
    /\ LET r == verifyShaderProgram(World, vertexShader, f)
       IN  /\ Store(r.w)
           /\ lastThrew' = r.threw
           /\ errors' = IF r.threw THEN r.message ELSE ""
    /\ fragmentShader' = f
    /\ verifyCalls' = verifyCalls + 1
    /\ UNCHANGED <<queuedErrors, geom, downloads, events, driver, enabled, pending, now, inner,
                   fragmentShaderTemp, showEditors, pc, clicks, resizes>>

NextVerify == \E f \in Sources : VerifyCall(f)

SpecVerify == InitVerify /\ [][NextVerify]_vars

\* ------------------------------------------------------------- properties

\* The children of the active scene that are quad drawables of the panel.
QuadX ==
    {i \in 1..Len(scene.children) :
        scene.children[i].type = "Mesh" /\ scene.children[i].name = "quadX"}

\* All Mesh children of the active scene.
Meshes == {i \in 1..Len(scene.children) : scene.children[i].type = "Mesh"}

\* The materials bound to Mesh children of the active scene.
LiveMaterials ==
    UNION {{scene.children[i].material[j] :
               j \in 1..Len(scene.children[i].material)} : i \in Meshes}

\* The diagnostic the page shows once React has rendered every setErrors call.
Diagnostic == IF queuedErrors # NoUpdate THEN queuedErrors ELSE errors

\* What the effect hands to setErrors for the committed text: the empty string
\* when verifyShaderProgram accepts it, else the message it raises.
Verdict ==
    LET r == verifyShaderProgram(World, vertexShader, fragmentShader)
    IN  IF r.threw THEN r.message ELSE ""

\* The effect has run and is not between its two mount runs.
EffectDone == pc \in {"strict", "ready"}

\* C1: an effect run whose validation throws leaves the children of the active
\* scene as they were (the same quad with the same material), disposes nothing,
\* and creates no material, drawable or hook.
C1_FailedCompileKeepsDrawable ==
    [][(verifyCalls' = verifyCalls + 1 /\ lastThrew') =>
          /\ scene'.children = scene.children
          /\ materials' = materials
          /\ closures' = closures
          /\ geometries' = geometries
          /\ \A i \in 1..Len(scene'.children) :
                 ~materials'[scene'.children[i].material[1]].disposed]_vars

C1_Witness ==
    /\ pc = "ready"
    /\ lastThrew
    /\ clicks >= 1
    /\ Cardinality(QuadX) = 1
    /\ \A i \in QuadX : ~materials[scene.children[i].material[1]].disposed

\* C2: after a compile whose validation failed, a scene that holds a live
\* drawable still has a draw hook, the one that refreshes the uniforms of that
\* drawable's material.
C2_FailedCompileKeepsHook ==
    (pc = "ready" /\ lastThrew /\ QuadX # {}) =>
        /\ scene.onDraw # 0
        /\ \A i \in QuadX :
               closures[scene.onDraw].mat = scene.children[i].material[1]

\* C3: the active scene never holds more than one quad drawable, and holds
\* exactly one after every effect run whose validation succeeded.
C3_AtMostOneQuad ==
    /\ Cardinality(QuadX) <= 1
    /\ Cardinality(Meshes) <= 1
    /\ (EffectDone /\ ~lastThrew) => Cardinality(QuadX) = 1

C3_Witness ==
    /\ pc = "ready"
    /\ ~lastThrew
    /\ Len(materials) >= 3
    /\ Cardinality(QuadX) = 1

\* C4: in the variant that looks the old drawable up under "quad", after every
\* successful compile exactly one drawable is in the active scene and the
\* materials of the drawables it replaced are disposed.
C4_QuadVariantOneDrawable ==
    (EffectDone /\ ~lastThrew) =>
        /\ Cardinality(Meshes) = 1
        /\ \A m \in 1..Len(materials) :
               m \notin LiveMaterials => materials[m].disposed

\* C5: a removal of the old quad is followed at once by the disposal of its
\* material and then by the addition of the new quad; a compile that adds a
\* quad where one existed removes the old one; and once the effect is done
\* every material ever created is either disposed or the undisposed material
\* of the single quad of the active scene.
C5_DisposalOrderedNoLeak ==
    /\ \A i \in 1..Len(trace) :
           trace[i].op = "scene.remove" =>
               /\ trace[i].arg = Len(materials) - 1
               /\ i + 1 <= Len(trace)
               /\ trace[i + 1] = Ev("material.dispose", trace[i].arg)
               /\ \E j \in (i + 2)..Len(trace) :
                      trace[j] = Ev("scene.add", Len(materials))
    /\ \A j \in 1..Len(trace) :
           (trace[j].op = "scene.add" /\ Len(materials) >= 2) =>
               \E i \in 1..(j - 1) : trace[i].op = "scene.remove"
    /\ EffectDone =>
           \A m \in 1..Len(materials) :
               IF m \in LiveMaterials
               THEN ~materials[m].disposed /\ Cardinality(QuadX) = 1
               ELSE materials[m].disposed

C5_Witness ==
    /\ pc = "ready"
    /\ clicks >= 1
    /\ \E i \in 1..Len(trace) : trace[i].op = "scene.remove"
    /\ \E i \in 1..Len(trace) : trace[i].op = "material.dispose"
    /\ \E m \in 1..Len(materials) : materials[m].disposed
    /\ LiveMaterials = {Len(materials)}

\* C6: no WebGL object created by verifyShaderProgram outlives the call,
\* whatever its outcome.
C6_VerifyDeletesAll ==
    \A h \in 1..Len(gl) : gl[h].deleted

\* C7: switchScene(name) with a name other than the active scene's disposes the
\* geometry and every material of every Mesh child of the old scene, and leaves
\* a new scene of that name with no children and no draw hook, and a new camera.
C7_SwitchSceneDisposes ==
    [][\A name \in SceneNames :
          (HostSwitchScene(name) /\ name # scene.name) =>
              /\ \A i \in 1..Len(scene.children) :
                     scene.children[i].type = "Mesh" =>
                         /\ geometries'[scene.children[i].geometry].disposed
                         /\ \A j \in 1..Len(scene.children[i].material) :
                                materials'[scene.children[i].material[j]].disposed
              /\ scene'.id # scene.id
              /\ scene'.name = name
              /\ scene'.children = <<>>
              /\ scene'.onDraw = 0
              /\ camera' # camera]_vars

C7_Witness ==
    /\ scenes >= 2
    /\ scene.children = <<>>
    /\ scene.onDraw = 0
    /\ Len(materials) >= 3
    /\ \A m \in 1..Len(materials) : materials[m].disposed
    /\ \A g \in 1..Len(geometries) : geometries[g].disposed
    /\ \E i \in 1..Len(trace) : trace[i].op = "geometry.dispose"

\* C8 as stated: every click on Compile makes one verifyShaderProgram call,
\* and the diagnostic after the click is that call's outcome (empty exactly
\* when it succeeded).
C8_EveryClickValidates ==
    [][clicks' = clicks + 1 =>
          /\ verifyCalls' = verifyCalls + 1
          /\ lastThrew' <=> errors' # ""]_vars

\* C8 amended: a click on Compile with a draft that differs from the committed
\* text makes exactly one verifyShaderProgram call, whose outcome is handed to
\* setErrors (empty on success, the message on failure; errors takes it at a
\* render, not within the click) and, on success, becomes the single drawable;
\* a click with a draft equal to the committed text makes no call and changes
\* nothing.
C8_ClickValidatesChangedText ==
    [][clicks' = clicks + 1 =>
          IF fragmentShaderTemp # fragmentShader
          THEN /\ verifyCalls' = verifyCalls + 1
               /\ LET r == verifyShaderProgram(World, vertexShader,
                                               fragmentShaderTemp)
                  IN  /\ lastThrew' = r.threw
                      /\ Diagnostic' = IF r.threw THEN r.message ELSE ""
               /\ ~lastThrew' =>
                      /\ Len(materials') = Len(materials) + 1
                      /\ materials'[Len(materials')].fragmentShader =
                             fragmentShaderTemp
                      /\ Len(scene'.children) = 1
                      /\ scene'.children[1].material = <<Len(materials')>>
          ELSE /\ verifyCalls' = verifyCalls
               /\ UNCHANGED <<errors, queuedErrors, lastThrew, scene,
                              materials, closures, gl, fragmentShader>>]_vars

C8_Witness ==
    /\ driver = "normal"
    /\ pc = "ready"
    /\ clicks = 2
    /\ verifyCalls = 2
    /\ lastThrew

\* C9 as stated: whenever a quad drawable is live, the committed text is the
\* fragment source of its material.
C9_CommittedIsLiveSource ==
    (pc = "ready" /\ QuadX # {}) =>
        \A i \in QuadX :
            materials[scene.children[i].material[1]].fragmentShader =
                fragmentShader

\* C9 amended: whenever a quad drawable is live and the most recent validation
\* succeeded, the committed text is the fragment source of its material; a
\* compile action whose validation fails does change the committed text, to the
\* rejected draft, while the live material keeps its source.
C9_CommittedIsLiveSourceWhenValid ==
    /\ [](EffectDone /\ ~lastThrew =>
             \A i \in QuadX :
                 materials[scene.children[i].material[1]].fragmentShader =
                     fragmentShader)
    /\ [][(clicks' = clicks + 1 /\ verifyCalls' = verifyCalls + 1 /\ lastThrew') =>
             /\ fragmentShader' = fragmentShaderTemp
             /\ fragmentShader' # fragmentShader
             /\ scene'.children = scene.children
             /\ \A m \in 1..Len(materials) :
                    materials'[m].fragmentShader = materials[m].fragmentShader]_vars

C9_Witness ==
    /\ pc = "ready"
    /\ lastThrew
    /\ fragmentShader = "badFrag"
    /\ \E i \in QuadX :
           materials[scene.children[i].material[1]].fragmentShader = "good"

\* C10: a click on Compile makes the committed text the draft of that moment,
\* whether or not it validates, and leaves the draft alone; a change of the
\* draft leaves the committed text alone.
C10_CompileCopiesDraft ==
    [][/\ clicks' = clicks + 1 =>
              /\ fragmentShader' = fragmentShaderTemp
              /\ fragmentShaderTemp' = fragmentShaderTemp
       /\ fragmentShaderTemp' # fragmentShaderTemp =>
              fragmentShader' = fragmentShader]_vars

C10_Witness ==
    /\ pc = "ready"
    /\ clicks = 1
    /\ lastThrew
    /\ fragmentShader = "badLink"
    /\ fragmentShaderTemp = "badLink"
    /\ errors = "link log"

\* ------------------------------------------------------------------ C11
\* C11 as stated: after every run of the compile effect the diagnostic is the
\* empty string when verifyShaderProgram accepted the committed text, and
\* exactly the message verifyShaderProgram raises for that text when it did
\* not; the effect completes either way, and a success after a failure leaves
\* no diagnostic.
C11_DiagnosticIsLastVerdict ==
    EffectDone =>
        LET r == verifyShaderProgram(World, vertexShader, fragmentShader)
        IN  /\ lastThrew = r.threw
            /\ errors = IF r.threw THEN r.message ELSE ""
            /\ r.threw => errors \in {"vertex log", "fragment log", "link log",
                                      "Cannot compile", "Cannot link"}

\* C11 amended: after every run of the compile effect the diagnostic the effect
\* handed to setErrors is the empty string when verifyShaderProgram accepted
\* the committed text and exactly the message it raises for that text when it
\* did not, and the effect completes either way; the state errors takes that
\* value at a render that follows the run, until which it keeps the value it
\* had, and it never changes to anything but a value an effect run handed
\* over: the one that was waiting, or the one of the runs of this very step.
C11_DiagnosticFollowsLastVerdict ==
    /\ [](EffectDone =>
             LET r == verifyShaderProgram(World, vertexShader, fragmentShader)
             IN  /\ lastThrew = r.threw
                 /\ Diagnostic = Verdict
                 /\ r.threw => Diagnostic \in {"vertex log", "fragment log",
                                               "link log", "Cannot compile",
                                               "Cannot link"})
    /\ [][errors' # errors =>
             \/ /\ queuedErrors # NoUpdate
                /\ errors' = queuedErrors
             \/ /\ verifyCalls' > verifyCalls
                /\ fragmentShader' = fragmentShader
                /\ queuedErrors' = NoUpdate
                /\ errors' = Verdict]_vars

\* A verification succeeded after an earlier one had failed, and React has not
\* rendered since: the page still shows the message of the failure.
C11_Witness ==
    /\ pc = "ready"
    /\ ~lastThrew
    /\ errors = "fragment log"
    /\ queuedErrors = ""

\* ------------------------------------------------------------------ C12
\* The page shows text src: no diagnostic once React has rendered, exactly one
\* quad, whose undisposed material was built from src, the registered draw
\* hook is the one over that material, a frame is requested, and that frame
\* renders and then runs the hook on that material.
RecoveredWith(src) ==
    /\ Diagnostic = ""
    /\ ~lastThrew
    /\ Cardinality(QuadX) = 1
    /\ Meshes = QuadX
    /\ \A i \in QuadX :
           LET m == scene.children[i].userData
               w == renderLoop(World)
           IN  /\ scene.children[i].material = <<m>>
               /\ materials[m].fragmentShader = src
               /\ ~materials[m].disposed
               /\ scene.onDraw # 0
               /\ closures[scene.onDraw].mat = m
               /\ \E a, b \in 1..Len(w.trace) :
                      /\ a < b
                      /\ w.trace[a] = Ev("render", scene.id)
                      /\ w.trace[b] = Ev("onDraw", m)
               /\ w.materials[m].uniforms.time = now
    /\ enabled
    /\ pending > 0

\* C12: whatever failed before, a click on Compile with a draft that validates
\* leaves the page showing that draft: empty diagnostic, one live quad built
\* from it, its draw hook registered, and the frame loop still running.
C12_FailureIsRecoverable ==
    [][(/\ clicks' = clicks + 1
        /\ ~verifyShaderProgram(World, vertexShader, fragmentShaderTemp).threw)
       => RecoveredWith(fragmentShaderTemp)']_vars

\* Two compiles failed one after the other (each left its program object
\* behind) and a third click brought a valid text up.
C12_Witness ==
    /\ pc = "ready"
    /\ clicks = 3
    /\ verifyCalls >= 4
    /\ RecoveredWith(fragmentShader)
    /\ errors = ""
    /\ queuedErrors = NoUpdate
    /\ Cardinality({p \in 1..Len(gl) :
                        gl[p].kind = "program" /\ ~gl[p].deleted}) = 2
    /\ \E m \in 1..Len(materials) : materials[m].disposed

\* ------------------------------------------------------------ C13 .. C15
\* The places of the calls of op in a call trace.
Calls(t, op) == {i \in 1..Len(t) : t[i].op = op}

\* C13: in every animation frame, whatever enable() and disable() calls came
\* before, the scene is rendered exactly once, and the draw hook, if one is
\* registered, is invoked exactly once, after the render.
C13_OneRenderOneHookPerFrame ==
    Calls(trace, "render") # {} =>
        /\ Cardinality(Calls(trace, "render")) = 1
        /\ Cardinality(Calls(trace, "onDraw")) =
               IF scene.onDraw # 0 THEN 1 ELSE 0
        /\ \A r \in Calls(trace, "render") :
               \A h \in Calls(trace, "onDraw") : r < h

\* C14: between disable() and the next enable() no requested callback runs
\* renderLoop: no render and no hook invocation happens while disabled.
C14_NoFrameWhileDisabled ==
    [][(~enabled /\ ~enabled')
       => ~(/\ pending' < pending
            /\ Calls(trace', "render") # {})]_vars

\* C15: while the loop is enabled, the animation frame that comes next resizes
\* the surface once and rebuilds the camera once, both before its first render,
\* when the window size differs from the size recorded at the last frame, and
\* records the new size; it does neither when the size is the same, and the
\* frame after it, at the same size, does neither. No frame resizes twice.
C15_OneResizePerSizeChange ==
    /\ (enabled /\ pending > 0) =>
          LET w == renderLoops(World, pending)
              later == renderLoops([w EXCEPT !.trace = <<>>], pending)
              S == Calls(w.trace, "setSize")
              C == Calls(w.trace, "recreateCamera")
          IN  /\ IF setInner # inner
                 THEN /\ Cardinality(S) = 1
                      /\ Cardinality(C) = 1
                      /\ w.camera = camera + 1
                      /\ \A r \in Calls(w.trace, "render") :
                             \A x \in S \cup C : x < r
                 ELSE /\ S = {}
                      /\ C = {}
                      /\ w.camera = camera
              /\ w.setInner = inner
              /\ Calls(w.trace, "render") # {}
              /\ Calls(later.trace, "setSize") = {}
              /\ Calls(later.trace, "recreateCamera") = {}
              /\ later.camera = w.camera
    /\ Calls(trace, "render") # {} =>
          /\ Cardinality(Calls(trace, "setSize")) <= 1
          /\ Cardinality(Calls(trace, "recreateCamera")) =
                 Cardinality(Calls(trace, "setSize"))
          /\ \A r \in Calls(trace, "render") :
                 \A x \in Calls(trace, "setSize") \cup
                          Calls(trace, "recreateCamera") : x < r

\* A frame has resized the surface to a window size other than the one the
\* page opened with, while two callback chains were running.
C15_Witness ==
    /\ enabled
    /\ pending = 2
    /\ Calls(trace, "setSize") # {}
    /\ Cardinality(Calls(trace, "render")) = 2
    /\ setInner = inner
    /\ setInner # InitialSize

\* ------------------------------------------------------------------ C16
\* C16: after the draw hook has run in a frame, the resolution uniform of the
\* material it wrote is the window size at that frame (the size renderLoop
\* recorded), and mouse and drag are quotients by that same size.
C16_ResolutionIsCurrentSize ==
    \A i \in Calls(trace, "onDraw") :
        LET u == materials[trace[i].arg].uniforms
        IN  /\ u.resolution = setInner
            /\ u.mouse = <<Frac(u.mouse[1][1], setInner[1]),
                           Frac(u.mouse[2][1], setInner[2])>>
            /\ u.drag = <<Frac(u.drag[1][1], setInner[1]),
                          Frac(u.drag[2][1], setInner[2])>>

\* ------------------------------------------------------------------ C17
\* What the driver says about the three steps for the text passed last.
VertexOK == compileStatus(VertexPreamble(vertexShader), "VERTEX_SHADER")

FragmentOK == compileStatus(FragmentPreamble(fragmentShader), "FRAGMENT_SHADER")

LinkOK == linkStatus(VertexPreamble(vertexShader), FragmentPreamble(fragmentShader))

VertexLog == getShaderInfoLog(VertexPreamble(vertexShader), "VERTEX_SHADER")

FragmentLog ==
    getShaderInfoLog(FragmentPreamble(fragmentShader), "FRAGMENT_SHADER")

LinkLog ==
    getProgramInfoLog(VertexPreamble(vertexShader),
                      FragmentPreamble(fragmentShader))

\* The steps of the last verifyShaderProgram call, from its call trace: the
\* vertex program is compiled; the fragment program is compiled only if that
\* succeeded; the program is linked only if both did, after both compiles; the
\* call throws exactly when a step fails; on success the program it created is
\* deleted.
StepsInOrder ==
    /\ Cardinality(Calls(trace, "gl.compileShader")) =
           IF VertexOK THEN 2 ELSE 1
    /\ Cardinality(Calls(trace, "gl.linkProgram")) =
           IF VertexOK /\ FragmentOK THEN 1 ELSE 0
    /\ \A c \in Calls(trace, "gl.compileShader") :
           \A l \in Calls(trace, "gl.linkProgram") : c < l
    /\ lastThrew = ~(VertexOK /\ FragmentOK /\ LinkOK)
    /\ ~lastThrew =>
           /\ errors = ""
           /\ trace[1].op = "gl.create"
           /\ gl[trace[1].arg].kind = "program"
           /\ gl[trace[1].arg].deleted

\* The log of the first step that failed.
FailedStepLog ==
    IF ~VertexOK THEN VertexLog
    ELSE IF ~FragmentOK THEN FragmentLog
    ELSE LinkLog

\* C17 as stated: the steps run in order up to the first failure, and the
\* message thrown is the driver's log of the step that failed.
C17_ThrowsDriverLog ==
    verifyCalls > 0 =>
        /\ StepsInOrder
        /\ lastThrew => errors = FailedStepLog

\* C17, amended: the steps run in order up to the first failure, and the
\* message thrown is the driver's log of the step that failed, or, when the
\* driver has no log for it, "Cannot compile" for a compile step and
\* "Cannot link" for the link step.
C17_ThrowsDriverLogOrDefault ==
    verifyCalls > 0 =>
        /\ StepsInOrder
        /\ lastThrew =>
               errors = IF FailedStepLog # NullLog THEN FailedStepLog
                        ELSE IF VertexOK /\ FragmentOK THEN "Cannot link"
                        ELSE "Cannot compile"

\* A call stopped at the link step on a driver without a program info log,
\* after an earlier call had succeeded.
C17_Witness ==
    /\ verifyCalls > 1
    /\ lastThrew
    /\ errors = "Cannot link"
    /\ Cardinality(Calls(trace, "gl.linkProgram")) = 1
    /\ \E p \in 1..Len(gl) : gl[p].kind = "program" /\ gl[p].deleted

\* ------------------------------------------------------------------ C18
\* C18: switchScene called with the name of the active scene changes nothing
\* (same scene object, children, hook, camera, heap) and makes no call (no
\* dispose of a geometry, a material or the render lists, no new camera); the
\* effect runs after the first, which start with switchScene("quad") on the
\* scene "quad", keep the scene object made by the first run, dispose no
\* geometry and rebuild no camera.
C18_SwitchToActiveSceneIsNoOp ==
    /\ switchScene(World, scene.name) = World
    /\ (verifyCalls >= 2 /\ Calls(trace, "gl.create") # {}) =>
           /\ scene.name = "quad"
           /\ scene.id = 2
           /\ scenes = 2
           /\ Calls(trace, "renderLists.dispose") = {}
           /\ Calls(trace, "recreateCamera") = {}
           /\ Calls(trace, "geometry.dispose") = {}
           /\ \A g \in 1..Len(geometries) : ~geometries[g].disposed
           /\ \A i \in Calls(trace, "material.dispose") :
                  \E j \in 1..(i - 1) : trace[j] = Ev("scene.remove", trace[i].arg)

\* A second run of the effect has just swapped the quad in the scene the first
\* run made, and its hook is registered.
C18_Witness ==
    /\ verifyCalls >= 2
    /\ Calls(trace, "gl.create") # {}
    /\ Calls(trace, "scene.remove") # {}
    /\ QuadX # {}
    /\ scene.onDraw # 0
    /\ scene.id = 2

\* ------------------------------------------------------------ C19, C20
\* The sum of the numbers of a sequence.
RECURSIVE SumOf(_)
SumOf(s) == IF s = <<>> THEN 0 ELSE Head(s) + SumOf(Tail(s))

\* The events that reached the listeners of draw hook k: those dispatched
\* after the effect run that set it up.
ReachedHook(e, k) == e.hooks >= k

\* The displacement of the i-th pointer move from the pointer event before it
\* (from the origin for the first one), counted when the primary button alone
\* was down and the move reached hook k, else zero.
DragStep(i, k, axis) ==
    LET M == EventsOf("mousemove")
        at == IF axis = 1 THEN M[i].x ELSE M[i].y
        before == IF i = 1 THEN 0
                  ELSE IF axis = 1 THEN M[i - 1].x ELSE M[i - 1].y
    IN  IF M[i].buttons = 1 /\ ReachedHook(M[i], k) THEN at - before ELSE 0

ExpectedDrag(k, axis) ==
    SumOf([i \in 1..Len(EventsOf("mousemove")) |-> DragStep(i, k, axis)])

\* The wheel turns that reached hook k, summed.
ExpectedTurn(k) ==
    SumOf([i \in 1..Len(EventsOf("wheel")) |->
              IF ReachedHook(EventsOf("wheel")[i], k)
              THEN EventsOf("wheel")[i].deltaY ELSE 0])

\* C19: at a frame, the drag uniform the hook publishes is the sum, over the
\* pointer moves since the drag was zero with the primary button alone down, of
\* the displacement from the previous pointer event, divided by the window
\* size; a move with other buttons adds nothing and still moves the pointer
\* position that is published.
C19_DragIsSumOfDisplacements ==
    \A i \in Calls(trace, "onDraw") :
        LET u == materials[trace[i].arg].uniforms
            k == scene.onDraw
            M == SelectSeq(EventsOf("mousemove"), LAMBDA e : ReachedHook(e, k))
        IN  /\ u.drag = <<Frac(ExpectedDrag(k, 1), inner[1]),
                          Frac(ExpectedDrag(k, 2), inner[2])>>
            /\ M # <<>> => u.mouse = <<Frac(M[Len(M)].x, inner[1]),
                                       Frac(M[Len(M)].y, inner[2])>>

\* The deltaY of the wheel turns that reached hook k, in the order they came.
WheelsOf(k) ==
    LET W == SelectSeq(EventsOf("wheel"), LAMBDA e : ReachedHook(e, k))
    IN  [i \in 1..Len(W) |-> W[i].deltaY]

\* The zoom after the wheel turns s, one rounded product and one rounded
\* difference per turn, from 1.
RECURSIVE ZoomAfter(_)
ZoomAfter(s) ==
    IF s = <<>> THEN ZoomOne
    ELSE DoubleMinus(ZoomAfter(SubSeq(s, 1, Len(s) - 1)),
                     DoubleTimesThousandth(s[Len(s)]))

\* The zoom z, read in whole thousandths, is t: z is less than half a
\* thousandth away from t thousandths. A thousand times z and t, both in
\* units of 2^-62, are compared; the top limb counts units of 2^60.
InThousandths(z, t) ==
    LET d == BigAdd(BigScale(z, 1000), BigNeg(BigScale(ZoomOne, t)))
        a == IF d[4] < 0 THEN BigNeg(d) ELSE d
    IN  a[4] < 2

\* C20: at a frame, the zoom the hook publishes is, in whole thousandths, 1000
\* less the sum of the deltaY of the wheel turns since the zoom was 1.0, in
\* whatever order they came and whatever pointer moves and frames came
\* between; the number itself is the result of one binary64 subtraction of
\* deltaY * 0.001 per wheel turn.
C20_ZoomIsOneLessSum ==
    \A i \in Calls(trace, "onDraw") :
        LET z == materials[trace[i].arg].uniforms.zoom
        IN  /\ InThousandths(z, 1000 - ExpectedTurn(scene.onDraw))
            /\ z = ZoomAfter(WheelsOf(scene.onDraw))

\* A frame published the zoom after three wheel turns, not all alike, whose
\* rounded differences have left it another double than the one nearest to
\* 1.0 - 0.001 * sum.
C20_Witness ==
    /\ Calls(trace, "onDraw") # {}
    /\ Len(WheelsOf(scene.onDraw)) = 3
    /\ \E i, j \in 1..3 : WheelsOf(scene.onDraw)[i] # WheelsOf(scene.onDraw)[j]
    /\ \A i \in Calls(trace, "onDraw") :
           materials[trace[i].arg].uniforms.zoom #
               DoubleMinus(ZoomOne,
                           DoubleTimesThousandth(ExpectedTurn(scene.onDraw)))

\* ------------------------------------------------------------------ C21
\* A step that adds a download adds one file, of type text/plain and named
\* fragment-<time of the click in ISO form>.glsl, whose text read back is
\* content, and changes nothing else: not the draft, the committed text, the
\* diagnostic, the editor visibility, the scene with its drawable and hook,
\* the materials or the frame loop.
ExportsOnly(content) ==
    downloads' # downloads =>
        /\ Len(downloads') = Len(downloads) + 1
        /\ SubSeq(downloads', 1, Len(downloads)) = downloads
        /\ LET d == downloads'[Len(downloads')]
           IN  /\ BlobText(d.file) = content
               /\ d.file.type = "text/plain"
               /\ d.download = <<"fragment-", toISOString(now), ".glsl">>
        /\ UNCHANGED <<fragmentShaderTemp, fragmentShader, errors,
                       queuedErrors, showEditors, scene, camera, materials,
                       closures, geometries, gl, enabled, pending, pc>>

\* C21 as stated: a click on Save As hands the browser one file whose text is
\* exactly the committed fragment text, whatever the draft is and whether or
\* not the committed text validated, under the name fragment-<timestamp>.glsl,
\* and changes nothing else.
C21_ExportIsCommittedText ==
    [][ExportsOnly(CodeUnits(fragmentShader))]_vars

\* C21 amended: the text of the file is the committed fragment text with every
\* unpaired surrogate replaced by U+FFFD, hence exactly the committed text
\* when that holds no unpaired surrogate; the rest as stated.
C21_ExportIsWellFormedCommittedText ==
    [][ExportsOnly(toWellFormed(CodeUnits(fragmentShader)))]_vars

\* A text that failed validation and holds an unpaired surrogate was exported
\* while the draft held another text: the file holds U+FFFD in its place.
C21_Witness ==
    /\ downloads # <<>>
    /\ lastThrew
    /\ errors # ""
    /\ fragmentShaderTemp # fragmentShader
    /\ BlobText(downloads[Len(downloads)].file) # CodeUnits(fragmentShader)
    /\ BlobText(downloads[Len(downloads)].file) =
           toWellFormed(CodeUnits(fragmentShader))
    /\ downloads[Len(downloads)].download[2] = toISOString(now)

\* ------------------------------------------------------------------ C22
\* The pointer moves that reached the listeners of hook k, in order.
MovesOf(k) ==
    SelectSeq(EventsOf("mousemove"), LAMBDA e : ReachedHook(e, k))

\* What the moves that reached hook k alone make of a pointer position and a
\* drag that start at the origin.
LaterPos(k) ==
    IF MovesOf(k) = <<>> THEN <<0, 0>>
    ELSE <<MovesOf(k)[Len(MovesOf(k))].x, MovesOf(k)[Len(MovesOf(k))].y>>

LaterDrag(k, axis) ==
    LET M == MovesOf(k)
        at(i) == IF i = 0 THEN 0 ELSE IF axis = 1 THEN M[i].x ELSE M[i].y
    IN  SumOf([i \in 1..Len(M) |->
                  IF M[i].buttons = 1 THEN at(i) - at(i - 1) ELSE 0])

\* C22: the variables behind the registered draw hook are those of a set that
\* started at zoom 1, drag (0,0), pointer (0,0) when its compile succeeded and
\* has seen only the wheel and pointer events dispatched since; what a frame
\* publishes is made of these alone, whatever events the listeners of earlier
\* compiles have received.
C22_FreshUniformSetPerCompile ==
    scene.onDraw # 0 =>
        LET k == scene.onDraw
            c == closures[k]
        IN  /\ c.zoom = ZoomAfter(WheelsOf(k))
            /\ c.mousePos = LaterPos(k)
            /\ c.mouseDrag = <<LaterDrag(k, 1), LaterDrag(k, 2)>>
            /\ (\A e \in {events[i] : i \in 1..Len(events)} : ~ReachedHook(e, k))
                   => /\ c.zoom = ZoomOne
                      /\ c.mousePos = <<0, 0>>
                      /\ c.mouseDrag = <<0, 0>>
            /\ \A i \in Calls(trace, "onDraw") :
                   LET u == materials[trace[i].arg].uniforms
                   IN  /\ trace[i].arg = c.mat
                       /\ u.zoom = c.zoom
                       /\ u.mouse = <<Frac(c.mousePos[1], c.resolution[1]),
                                      Frac(c.mousePos[2], c.resolution[2])>>
                       /\ u.drag = <<Frac(c.mouseDrag[1], c.resolution[1]),
                                     Frac(c.mouseDrag[2], c.resolution[2])>>

\* A frame published the values of a hook set up by a later compile, after a
\* wheel turn and a held pointer move that reached only the listeners of the
\* earlier hooks, and an event that reached the new ones as well.
C22_Witness ==
    /\ scene.onDraw >= 2
    /\ Calls(trace, "onDraw") # {}
    /\ \E i, j \in 1..Len(events) :
           /\ events[i].kind = "wheel"
           /\ events[j].kind = "mousemove"
           /\ events[j].buttons = 1
           /\ ~ReachedHook(events[i], scene.onDraw)
           /\ ~ReachedHook(events[j], scene.onDraw)
    /\ \E i \in 1..Len(events) : ReachedHook(events[i], scene.onDraw)
    /\ closures[scene.onDraw - 1].zoom # closures[scene.onDraw].zoom
    /\ closures[scene.onDraw - 1].mouseDrag # closures[scene.onDraw].mouseDrag

\* ------------------------------------------------------------------ C23
\* C23: whatever enable() and disable() calls and frames have come, at most
\* one animation-frame callback of renderLoop is requested.
C23_AtMostOnePendingFrame == pending <= 1

\* ------------------------------------------------------------------ C24
\* C24: the material the registered draw hook writes is the undisposed
\* material of the one quad in the active scene; the frame that comes next
\* changes the uniforms of no other material, and the material the last frame
\* wrote is live as long as no compile has come since.
C24_HookWritesLiveMaterial ==
    /\ scene.onDraw # 0 =>
           /\ Cardinality(QuadX) = 1
           /\ \A i \in QuadX :
                  /\ scene.children[i].material = <<closures[scene.onDraw].mat>>
                  /\ scene.children[i].userData = closures[scene.onDraw].mat
           /\ ~materials[closures[scene.onDraw].mat].disposed
    /\ \A m \in 1..Len(materials) :
           renderLoop(World).materials[m] # materials[m] =>
               /\ m \in LiveMaterials
               /\ ~materials[m].disposed
    /\ \A i \in Calls(trace, "onDraw") :
           /\ trace[i].arg \in LiveMaterials
           /\ ~materials[trace[i].arg].disposed

\* A frame, later than the materials' construction, wrote the material of a
\* quad that replaced an earlier one, whose material is disposed.
C24_Witness ==
    /\ Calls(trace, "onDraw") # {}
    /\ scene.onDraw >= 2
    /\ now > 0
    /\ \E m \in 1..Len(materials) : materials[m].disposed
    /\ \A i \in Calls(trace, "onDraw") :
           /\ materials[trace[i].arg].uniforms.time = now
           /\ trace[i].arg = Len(materials)

\* ------------------------------------------------------------------ C25
\* C25: when exactly one pointer move has reached the listeners of the
\* registered hook since its compile, and the primary button alone was down,
\* the drag behind the hook is the whole client position (x, y) of that move,
\* wherever the pointer was before, and a frame publishes
\* drag = (x / width, y / height), the same as mouse, width and height being
\* the window size that compile read, which the hook publishes as resolution
\* (the size of the window as long as it has not been resized).
C25_FirstDragAddsFullPosition ==
    (/\ scene.onDraw # 0
     /\ Len(MovesOf(scene.onDraw)) = 1
     /\ MovesOf(scene.onDraw)[1].buttons = 1) =>
        LET e == MovesOf(scene.onDraw)[1]
            c == closures[scene.onDraw]
        IN  /\ c.mouseDrag = <<e.x, e.y>>
            /\ c.mousePos = <<e.x, e.y>>
            /\ resizes = 0 => c.resolution = inner
            /\ \A i \in Calls(trace, "onDraw") :
                   LET u == materials[trace[i].arg].uniforms
                   IN  /\ u.resolution = c.resolution
                       /\ u.drag = <<Frac(e.x, u.resolution[1]),
                                     Frac(e.y, u.resolution[2])>>
                       /\ u.mouse = u.drag

\* A frame published the drag after the first held move since a compile,
\* while the pointer had been at another place other than the origin before
\* that compile, and the window has been resized since that compile.
C25_Witness ==
    /\ scene.onDraw # 0
    /\ Calls(trace, "onDraw") # {}
    /\ Len(MovesOf(scene.onDraw)) = 1
    /\ MovesOf(scene.onDraw)[1].buttons = 1
    /\ Len(EventsOf("mousemove")) = 2
    /\ EventsOf("mousemove")[1].x # EventsOf("mousemove")[2].x
    /\ inner # closures[scene.onDraw].resolution
    /\ setInner = inner
    /\ \A i \in Calls(trace, "onDraw") :
           materials[trace[i].arg].uniforms.drag[1][1] =
               EventsOf("mousemove")[2].x

====
